---- MODULE Spec2Model ----
(***************************************************************************)
(* browsercookie: loading browser cookie stores into a cookie jar.         *)
(* The model follows src/browsercookie/__init__.py: the store loaders      *)
(* (ChromeBased, Firefox, Safari), create_local_copy, ChromeBased._decrypt,*)
(* create_cookie, BrowserCookieLoader.load, _get_cookies and load.         *)
(***************************************************************************)
EXTENDS Integers, Sequences, FiniteSets, TLC

(***************************************************************************)
(* Bounds of the model.                                                    *)
(***************************************************************************)
\* store files one loader is constructed with or discovers (Firefox: session
\* candidates, to which cookies.sqlite is added)
MaxFiles == 2
\* rows one store file holds
MaxRows == 2
\* cookie records one run yields in total
MaxCookies == 2
\* extra passphrases the Linux secret service returns
MaxSecrets == 1

(***************************************************************************)
(* Program constants.                                                      *)
(***************************************************************************)
\* version >= 24: the plaintext carries a prefix (line 229)
PrefixVersion == 24
\* ... of 32 bytes (line 230)
PrefixLen == 32
\* version < 10: the column is "secure", not "is_secure" (line 167)
IsSecureVersion == 10
\* expires / 1e6 (line 175)
Million == 1000000
\* 11644473600 seconds between 1601-01-01 and 1970-01-01 (line 175), written
\* as EpochMega * 10^6 + EpochRest so that every number stays in TLC's range
EpochMega == 11644
EpochRest == 473600
\* PBKDF2 iterations (lines 108 and 123)
DarwinIterations == 1003
LinuxIterations == 1
\* 3600 * 24 * 7, the lifetime given to a Firefox session cookie (line 444)
SessionLifetime == 604800

(***************************************************************************)
(* Values.                                                                 *)
(***************************************************************************)
None == [none |-> TRUE]

Min(a, b) == IF a < b THEN a ELSE b

\* n copies of byte b
Fill(n, b) == [i \in 1..n |-> b]

\* s[n:] of Python: the elements after the first n, empty when s is shorter
SliceFrom(s, n) == IF n >= Len(s) THEN << >> ELSE SubSeq(s, n + 1, Len(s))

\* s[:n] of Python
SliceTo(s, n) == IF n >= Len(s) THEN s ELSE SubSeq(s, 1, n)

\* str.startswith
StartsWith(s, p) == Len(s) >= Len(p) /\ SubSeq(s, 1, Len(p)) = p

\* bytes and str are different types in Python 3: a value is tagged with its type
Bytes(data) == [type |-> "bytes", data |-> data]
Str(data) == [type |-> "str", data |-> data]

(***************************************************************************)
(* bytes.decode("utf-8"), for the one- and two-byte forms: a byte below    *)
(* 0x80 is a code point; a lead byte 0xC2..0xDF takes one continuation     *)
(* byte 0x80..0xBF; every other byte the model's inputs hold (0xFF, a lone *)
(* continuation byte, a lead byte at the end) is a UnicodeDecodeError.     *)
(***************************************************************************)
IsContinuation(b) == b >= 128 /\ b <= 191

IsLead2(b) == b >= 194 /\ b <= 223

RECURSIVE Utf8Valid(_)
Utf8Valid(bs) ==
    IF bs = << >> THEN TRUE
    ELSE IF bs[1] < 128 THEN Utf8Valid(Tail(bs))
    ELSE IF IsLead2(bs[1]) /\ Len(bs) >= 2 /\ IsContinuation(bs[2])
         THEN Utf8Valid(Tail(Tail(bs)))
    ELSE FALSE

RECURSIVE Utf8Chars(_)
Utf8Chars(bs) ==
    IF bs = << >> THEN << >>
    ELSE IF bs[1] < 128 THEN <<bs[1]>> \o Utf8Chars(Tail(bs))
    ELSE <<(bs[1] - 192) * 64 + (bs[2] - 128)>> \o Utf8Chars(Tail(Tail(bs)))

\* an exception: its class and the parts its message is built from
Exc(kind, text, cookie, site) ==
    [kind |-> kind, text |-> text, cookie |-> cookie, site |-> site]

NoName == << >>

\* the result of a call: a value, or an exception raised
Ok(v) == [ok |-> TRUE, val |-> v]
Raised(e) == [ok |-> FALSE, exc |-> e]

\* a call that returned None
OkNone == [ok |-> TRUE, val |-> << >>, none |-> TRUE]
IsNone(r) == "none" \in DOMAIN r

Utf8Decode(bs) ==
    IF Utf8Valid(bs) THEN Ok(Str(Utf8Chars(bs)))
    ELSE Raised(Exc("UnicodeDecodeError", "utf-8", NoName, NoName))

(***************************************************************************)
(* Keys and ciphertexts.  A key is what it was made from.  A ciphertext    *)
(* is what the ciphers make of it: the key it was encrypted under, the     *)
(* plaintext that key gives back, and what AES-CBC makes of it under any   *)
(* other key (a padding ValueError, or bytes that happen to unpad).        *)
(***************************************************************************)
\* PBKDF2HMAC(SHA1, 16, b'saltysalt', iterations).derive(my_pass)
Kdf(my_pass, iterations) == [pass |-> my_pass, iterations |-> iterations]

\* win32crypt.CryptUnprotectData(encrypted_key)[1] of the Local State at path
LocalStateKey(local_state_path) == [pass |-> local_state_path, iterations |-> 0]

\* the user's DPAPI secret, which CryptUnprotectData uses and no key of the list is
DpapiUser == [pass |-> "dpapi", iterations |-> 0]

\* no key at all: a blob of the wrong length, or bytes that are no ciphertext
NoKey == [pass |-> "", iterations |-> 0]

ValueError == Exc("ValueError", "Invalid padding bytes.", NoName, NoName)

\* Cipher(AES(key), CBC(b' ' * 16)) decryption followed by PKCS7 unpadding
CbcDecrypt(body, key) == IF key = body.by THEN Ok(body.pt) ELSE body.wrong

\* Cipher(AES(key), GCM(nonce, tag)): the tag fails under every other key
GcmDecrypt(body, key) ==
    IF key = body.by THEN Ok(body.pt)
    ELSE Raised(Exc("InvalidTag", "", NoName, NoName))

\* win32crypt.CryptUnprotectData(encrypted_value)
CryptUnprotectData(body) ==
    IF body.by = DpapiUser THEN Ok(body.pt)
    ELSE Raised(Exc("pywintypes.error", "CryptUnprotectData", NoName, NoName))

\* the prefix taken off from the version after PrefixVersion on
StripPrefixLate(plaintext, version) ==
    IF version > PrefixVersion THEN SliceFrom(plaintext, PrefixLen) ELSE plaintext

\* lines 229-230
StripPrefix(plaintext, version) ==
    IF version >= PrefixVersion THEN SliceFrom(plaintext, PrefixLen) ELSE plaintext

\* a plain value only where the blob has no marker either
IsPlainBoth(value, encrypted_value) ==
    value # << >> /\ (encrypted_value.marker # "v10" /\ encrypted_value.marker # "v11")

\* line 193: the column holds a plain value, or the blob has no known marker
IsPlain(value, encrypted_value) ==
    value # << >> \/ (encrypted_value.marker # "v10" /\ encrypted_value.marker # "v11")

\* ChromeBased._decrypt on sys.platform = platform
DecryptOn(platform, value, encrypted_value, cookiename, sitename, key, version) ==
    IF platform = "darwin" \/ platform = "linux"
    THEN IF IsPlain(value, encrypted_value)
         THEN Ok(Bytes(value))
         ELSE LET r == CbcDecrypt(encrypted_value.body, key)
              IN  IF r.ok THEN Utf8Decode(StripPrefix(r.val, version)) ELSE r
    ELSE IF encrypted_value.marker = "v10"
         THEN LET r == GcmDecrypt(encrypted_value.body, key)
              IN  IF r.ok THEN Utf8Decode(StripPrefix(r.val, version))
                  ELSE Raised(Exc("BrowserCookieError", "Error decrypting V80+ cookie",
                                  cookiename, sitename))
         ELSE LET r == CryptUnprotectData(encrypted_value.body)
              IN  IF r.ok THEN Utf8Decode(StripPrefix(r.val, version))
                  ELSE Raised(Exc("BrowserCookieError", "Error decrypting cookie",
                                  cookiename, sitename))

(***************************************************************************)
(* Cookie records.                                                         *)
(***************************************************************************)
\* a Python float n + micros / 10^6 with 0 <= micros < 10^6 (binary rounding
\* of the fraction is not modelled)
Float(n, micros) == [int |-> n, micros |-> micros]

\* int(float(x)): truncation towards zero
IntOfFloat(f) == IF f.int < 0 /\ f.micros > 0 THEN f.int + 1 ELSE f.int

\* line 175: expires / 1e6 - 11644473600, of expires_utc =
\* (mega * 10^6 + sec) * 10^6 + micros
ChromeExpires(expires_utc) ==
    Float((expires_utc.mega - EpochMega) * Million + (expires_utc.sec - EpochRest),
          expires_utc.micros)

\* a cookie whose domain counts as specified whatever the host is
create_cookie_specified(host, path, secure, expires, name, value) ==
    [name |-> name, value |-> value, domain |-> host,
     domain_specified |-> TRUE,
     domain_initial_dot |-> StartsWith(host, <<".">>),
     path |-> path, secure |-> secure, expires |-> IntOfFloat(expires)]

\* create_cookie, with http.cookiejar.Cookie's expires = int(float(expires))
create_cookie(host, path, secure, expires, name, value) ==
    [name |-> name, value |-> value, domain |-> host,
     domain_specified |-> StartsWith(host, <<".">>),
     domain_initial_dot |-> StartsWith(host, <<".">>),
     path |-> path, secure |-> secure, expires |-> IntOfFloat(expires)]

\* lines 176-185: the candidate keys in order from index i; the first that
\* raises neither UnicodeDecodeError nor ValueError gives the value.  tried
\* counts the keys _decrypt was called with.
RECURSIVE TryKeys(_, _, _, _, _)
TryKeys(platform, item, keys, i, version) ==
    IF i > Len(keys)
    THEN [res |-> Raised(Exc("BrowserCookieError", "Error decrypting cookie",
                             item.name, item.host_key)),
          tried |-> Len(keys)]
    ELSE LET r == DecryptOn(platform, item.value, item.encrypted_value,
                            item.name, item.path, keys[i], version)
         IN  IF r.ok THEN [res |-> r, tried |-> i]
             ELSE IF r.exc.kind \in {"UnicodeDecodeError", "ValueError"}
                  THEN TryKeys(platform, item, keys, i + 1, version)
                  ELSE [res |-> r, tried |-> i]

\* lines 171-185 for one row: the record yielded, or the exception raised
ChromeRow(platform, item, keys, version) ==
    LET t == TryKeys(platform, item, keys, 1, version)
    IN  IF t.res.ok
        THEN [res |-> Ok(create_cookie(item.host_key, item.path, item.is_secure,
                                       ChromeExpires(item.expires_utc), item.name,
                                       t.res.val)),
              tried |-> t.tried]
        ELSE t

(***************************************************************************)
(* The jar.                                                                *)
(***************************************************************************)
\* a stable insertion of c into a list sorted by expires, after its equals
RECURSIVE InsertSorted(_, _)
InsertSorted(c, s) ==
    IF s = << >> THEN <<c>>
    ELSE IF c.expires < s[1].expires THEN <<c>> \o s
    ELSE <<s[1]>> \o InsertSorted(c, Tail(s))

\* the cookies in the order they came
Unsorted(s) == s

\* sorted(cookies, key=lambda cookie: cookie.expires)
RECURSIVE SortedByExpires(_)
SortedByExpires(s) ==
    IF s = << >> THEN << >>
    ELSE InsertSorted(s[Len(s)], SortedByExpires(SubSeq(s, 1, Len(s) - 1)))

\* the key http.cookiejar.CookieJar.set_cookie files a cookie under
Identity(c) == <<c.domain, c.path, c.name>>

\* CookieJar.set_cookie: c3[cookie.name] = cookie
set_cookie(cookie_jar, cookie) ==
    [k \in DOMAIN cookie_jar \cup {Identity(cookie)} |->
        IF k = Identity(cookie) THEN cookie ELSE cookie_jar[k]]

EmptyJar == [k \in {} |-> None]

\* for cookie in cookies: cookie_jar.set_cookie(cookie)
RECURSIVE SetAll(_, _)
SetAll(cookie_jar, cookies) ==
    IF cookies = << >> THEN cookie_jar
    ELSE SetAll(set_cookie(cookie_jar, cookies[1]), Tail(cookies))

(***************************************************************************)
(* The environment: what the file system, the key stores and the store     *)
(* files hold.  Each is drawn when the code reads it.                      *)
(***************************************************************************)
Platforms == {"darwin", "linux", "win32", "freebsd"}

\* lines 235-338: the subclasses of ChromeBased
ChromeKlasses == {"Brave", "Chrome", "Chromium", "Vivaldi", "Edge", "EdgeDev"}

\* line 620
AllKlasses == <<"Brave", "Chrome", "Chromium", "Vivaldi", "Edge", "EdgeDev", "Firefox">>

\* lines 571-615: the single-browser entry points; brave(), chromium(),
\* vivaldi(), edge() and edge_dev() run the code chrome() runs
EntryKlasses == {"Chrome", "Firefox", "Safari"}

\* a store file: the directory holding its profiles ('User Data' on win32),
\* its name and its suffix
File(dir, name, suffix) == [dir |-> dir, name |-> name, suffix |-> suffix]

ChromeFiles ==
    {File("A", "Default/Cookies", ""), File("A", "Profile 1/Cookies", ""),
     File("B", "Default/Cookies", "")}

\* lines 396-403, in this order
SessionCandidates ==
    <<File("P", "sessionstore-backups/recovery.js", ".js"),
      File("P", "sessionstore-backups/recovery.json", ".json"),
      File("P", "sessionstore-backups/recovery.jsonlz4", ".jsonlz4"),
      File("P", "sessionstore.js", ".js"),
      File("P", "sessionstore.json", ".json"),
      File("P", "sessionstore.jsonlz4", ".jsonlz4")>>

\* the candidates a profile may hold: recovery.json, recovery.jsonlz4 and
\* sessionstore.jsonlz4
ProfileCandidates == {2, 3, 6}

CookiesSqlite == File("P", "cookies.sqlite", ".sqlite")

SafariDir == File("~/Library", "Cookies", "")

\* the sequences over S of length at most n
SeqUpTo(S, n) == UNION {[1..k -> S] : k \in 0..n}

\* the elements of s at the increasing positions of idx
RECURSIVE Pick(_, _, _)
Pick(s, idx, i) ==
    IF i > Len(s) THEN << >>
    ELSE (IF i \in idx THEN <<s[i]>> ELSE << >>) \o Pick(s, idx, i + 1)

Hosts == {<<"a">>, <<".", "a">>}
Paths == {<<"/">>}
Names == {<<"s">>}

\* expires_utc columns: 100 and 200 seconds after 1970-01-01
ExpiresUtc ==
    {[mega |-> EpochMega, sec |-> EpochRest + 100, micros |-> 0],
     [mega |-> EpochMega, sec |-> EpochRest + 200, micros |-> 0]}

\* plaintexts: a prefix of PrefixLen bytes or one more or less, valid UTF-8 or
\* not, then a payload: nothing, "B", "\u00e9", or a byte that is no UTF-8
PlainTexts ==
    {Fill(n, b) \o payload :
        n \in {0, PrefixLen - 1, PrefixLen, PrefixLen + 1}, b \in {0, 255},
        payload \in {<< >>, <<66>>, <<195, 169>>, <<255>>}}

\* the secrets of the secret service collection
SecretNames == <<"secret1", "secret2", "secret3">>

\* the keys a blob may have been encrypted under
ByKeys(platform) ==
    CASE platform = "darwin" -> {Kdf("keychain", DarwinIterations), NoKey}
      [] platform = "linux" -> {Kdf("peanuts", LinuxIterations),
                                Kdf(SecretNames[1], LinuxIterations), NoKey}
      [] platform = "win32" -> {LocalStateKey("A"), DpapiUser, NoKey}
      [] OTHER -> {NoKey}

\* the encrypted_value columns of the pure-function checks
EncryptedValues(platform) ==
    {[marker |-> "", body |-> [by |-> NoKey, pt |-> << >>, wrong |-> Raised(ValueError)]]}
    \cup {[marker |-> m, body |-> [by |-> k, pt |-> pt, wrong |-> w]] :
            m \in {"v10", "v11"}, k \in ByKeys(platform), pt \in PlainTexts,
            w \in {Raised(ValueError), Ok(<<65>>)}}
    \cup {[marker |-> "", body |-> [by |-> DpapiUser, pt |-> pt, wrong |-> Raised(ValueError)]] :
            pt \in IF platform = "win32" THEN PlainTexts ELSE {}}

\* the (value, encrypted_value) columns of the rows a store file holds: a plain
\* value, and a blob under each key
StoredValues(platform) ==
    {[value |-> <<67>>,
      encrypted_value |-> [marker |-> "", body |-> [by |-> NoKey, pt |-> << >>,
                                                     wrong |-> Raised(ValueError)]]]}
    \cup {[value |-> << >>,
           encrypted_value |-> [marker |-> "v10",
                                body |-> [by |-> k, pt |-> Fill(PrefixLen, 0) \o <<65>>,
                                          wrong |-> Raised(ValueError)]]] :
            k \in ByKeys(platform)}

\* the rows of the cookies table (bytes columns: con.text_factory = bytes)
ChromeItems(platform) ==
    {[host_key |-> h, path |-> p, is_secure |-> 1, expires_utc |-> e, name |-> n,
      value |-> v.value, encrypted_value |-> v.encrypted_value] :
        h \in {<<".", "a">>}, p \in Paths, e \in ExpiresUtc, n \in Names,
        v \in StoredValues(platform)}

\* the meta table's version
DbVersions == {9, 24}

\* the rows of moz_cookies
MozItems ==
    {[host |-> h, path |-> p, isSecure |-> 0, expiry |-> e.expiry, name |-> n,
      value |-> e.value] :
        h \in Hosts, p \in Paths, n \in Names,
        e \in {[expiry |-> 100, value |-> Str(<<66>>)],
                [expiry |-> 300, value |-> Str(<<68>>)]}}

(***************************************************************************)
(* The state.                                                              *)
(***************************************************************************)
VARIABLES
    plat,                  \* sys.platform
    entry,                 \* the entry point called: "load", or a loader class
    pc,                    \* where the call is
    klasses,               \* _get_cookies: the classes still to come
    started,               \* _get_cookies: the classes klass() was called for
    klass,                 \* the loader running
    cookie_files,          \* self.cookie_files
    fi,                    \* the index of the store file being processed
    keys,                  \* ChromeBased.get_cookies: keys
    key_local_state_path,  \* ChromeBased.get_cookies: key_local_state_path
    unwrapped,             \* the Local State paths whose key was unwrapped (line 158)
    tmp_files,             \* the temporary copies that exist
    cur,                   \* the file being read: its kind, version, rows left,
                           \* and the path the reader was opened on
    has_session_files,     \* Firefox.get_cookies: has_session_files
    stdout,                \* what was printed
    yielded,               \* the records get_cookies / _get_cookies yielded
    thrown,                \* the exception the last step raised in a loader
    exc,                   \* the exception that reached the caller
    cookie_jar,            \* the jar returned, and the order of its insertions
    call                   \* a function called on its own: its arguments and result

vars ==
    <<plat, entry, pc, klasses, started, klass, cookie_files, fi, keys,
      key_local_state_path, unwrapped, tmp_files, cur, has_session_files, stdout, yielded,
      thrown, exc, cookie_jar, call>>

NoExc == Exc("", "", NoName, NoName)
NoCur == [kind |-> "", version |-> 0, rows_left |-> 0, opened |-> ""]
NoJar == [jar |-> EmptyJar, inserted |-> << >>, returned |-> FALSE]
NoCall == [fn |-> ""]

Init ==
    /\ plat \in Platforms
    /\ entry = ""
    /\ pc = "idle"
    /\ klasses = << >>
    /\ started = << >>
    /\ klass = ""
    /\ cookie_files = << >>
    /\ fi = 0
    /\ keys = << >>
    /\ key_local_state_path = ""
    /\ unwrapped = << >>
    /\ tmp_files = {}
    /\ cur = NoCur
    /\ has_session_files = FALSE
    /\ stdout = {}
    /\ yielded = << >>
    /\ thrown = NoExc
    /\ exc = NoExc
    /\ cookie_jar = NoJar
    /\ call = NoCall

(***************************************************************************)
(* Construction of a loader.                                               *)
(***************************************************************************)
BrowserCookieError(text) == Exc("BrowserCookieError", text, NoName, NoName)

\* the cookie_files argument: None, or a list
NoArg == [given |-> FALSE, files |-> << >>]
Arg(files) == [given |-> TRUE, files |-> files]

\* the sequences of distinct elements of S, of length at most n
DistinctSeqs(S, n) == {s \in SeqUpTo(S, n) : \A i, j \in 1..Len(s) : s[i] = s[j] => i = j}

\* glob.glob over the patterns of a ChromeBased class: a generator, which may
\* yield nothing
ChromeBasedFind == {Ok(s) : s \in DistinctSeqs(ChromeFiles, MaxFiles)}

\* Firefox.find_cookie_files (lines 386-408), as list() consumes the generator
FirefoxFind(platform) ==
    IF platform \notin {"darwin", "linux", "win32"}
    THEN {Raised(BrowserCookieError("Unsupported operating system: "))}
    ELSE {Raised(BrowserCookieError("Could not find default Firefox profile")),
          Raised(BrowserCookieError("No default Firefox profile found")),
          Raised(BrowserCookieError("Failed to find Firefox cookies"))}
         \cup {Ok(Pick(SessionCandidates, idx, 1) \o <<CookiesSqlite>>) :
                 idx \in {x \in SUBSET ProfileCandidates : Cardinality(x) <= MaxFiles}}

\* Safari.find_cookie_files (lines 456-464): off darwin the error is built but
\* not raised, and the method returns None
SafariFind(platform) ==
    IF platform # "darwin"
    THEN {OkNone}
    ELSE {Ok(<<SafariDir>>), Raised(BrowserCookieError("Failed to find Safari cookies"))}

find_cookie_files(k, platform) ==
    IF k \in ChromeKlasses THEN ChromeBasedFind
    ELSE IF k = "Firefox" THEN FirefoxFind(platform)
    ELSE SafariFind(platform)

\* BrowserCookieLoader.__init__ (lines 79-81): cookie_files or find_cookie_files(),
\* then list(); found is what find_cookie_files() gives when it is called
BrowserCookieLoaderInit(arg, found) ==
    IF arg.given /\ arg.files # << >> THEN Ok(arg.files)
    ELSE IF ~found.ok THEN found
    ELSE IF IsNone(found)
         THEN Raised(Exc("TypeError", "'NoneType' object is not iterable", NoName, NoName))
    ELSE found

\* the lists a caller passes
Args(k) ==
    {NoArg} \cup
    {Arg(s) : s \in SeqUpTo(IF k \in ChromeKlasses THEN ChromeFiles
                             ELSE IF k = "Firefox"
                                  THEN {CookiesSqlite, SessionCandidates[2], SessionCandidates[3]}
                             ELSE {SafariDir}, MaxFiles)}

(***************************************************************************)
(* Exceptions.                                                             *)
(***************************************************************************)
\* an except clause that lets every exception through
CatchesNothing(e) == FALSE

\* an except clause that lets the decryption errors through
CatchesButDecryption(e) ==
    /\ e.kind = "BrowserCookieError"
    /\ e.text \notin {"Error decrypting cookie", "Error decrypting V80+ cookie"}

\* line 624: except BrowserCookieError
Catches(e) == e.kind = "BrowserCookieError"

LoaderReset ==
    /\ klass' = ""
    /\ cookie_files' = << >>
    /\ fi' = 0
    /\ keys' = << >>
    /\ key_local_state_path' = ""
    /\ unwrapped' = << >>
    /\ cur' = NoCur
    /\ has_session_files' = FALSE

\* e leaves the loader: _get_cookies passes over it (lines 624-625) and goes on
\* with the next class, or it reaches the caller
Throw(e) ==
    /\ thrown' = e
    /\ IF entry = "load" /\ Catches(e)
       THEN pc' = "agg" /\ exc' = exc
       ELSE pc' = "raised" /\ exc' = e
    /\ LoaderReset

\* set_cookie in the order the cookies came, as load did before it sorted
LoadJarUnsorted(cookies) ==
    [jar |-> SetAll(EmptyJar, cookies), inserted |-> cookies, returned |-> TRUE]

\* lines 93-96 and 631-636: sorted by expires, then set_cookie in that order
LoadJar(cookies) ==
    [jar |-> SetAll(EmptyJar, SortedByExpires(cookies)),
     inserted |-> SortedByExpires(cookies), returned |-> TRUE]

(***************************************************************************)
(* The entry points.                                                       *)
(***************************************************************************)
\* load() (line 628)
Load ==
    /\ pc = "idle"
    /\ entry' = "load"
    /\ klasses' = AllKlasses
    /\ pc' = "agg"
    /\ thrown' = NoExc
    /\ UNCHANGED <<call, plat, started, klass, cookie_files, fi, keys, key_local_state_path, unwrapped,
                   tmp_files, cur, has_session_files, stdout, yielded, exc, cookie_jar>>

\* brave(), chrome(), ..., safari() (lines 571-615): klass(cookie_files), then .load()
Single ==
    /\ pc = "idle"
    /\ \E k \in EntryKlasses : \E arg \in Args(k) :
         \E found \in find_cookie_files(k, plat) :
           LET r == BrowserCookieLoaderInit(arg, found)
           IN  /\ entry' = k
               /\ IF r.ok
                  THEN /\ klass' = k
                       /\ cookie_files' = r.val
                       /\ pc' = "get_cookies"
                       /\ thrown' = NoExc
                       /\ UNCHANGED <<exc, fi, keys, key_local_state_path, unwrapped, cur,
                                      has_session_files>>
                  ELSE /\ pc' = "raised" /\ exc' = r.exc /\ thrown' = r.exc
                       /\ LoaderReset
    /\ UNCHANGED <<call, plat, klasses, started, tmp_files, stdout, yielded, cookie_jar>>

\* _get_cookies (lines 620-622): the next class is constructed
AggKlass ==
    /\ pc = "agg"
    /\ klasses # << >>
    /\ klasses' = Tail(klasses)
    /\ started' = Append(started, Head(klasses))
    /\ \E found \in find_cookie_files(Head(klasses), plat) :
         LET r == BrowserCookieLoaderInit(NoArg, found)
         IN  IF r.ok
             THEN /\ klass' = Head(klasses)
                  /\ cookie_files' = r.val
                  /\ pc' = "get_cookies"
                  /\ thrown' = NoExc
                  /\ UNCHANGED <<exc, fi, keys, key_local_state_path, unwrapped, cur,
                                 has_session_files>>
             ELSE Throw(r.exc)
    /\ UNCHANGED <<call, plat, entry, tmp_files, stdout, yielded, cookie_jar>>

\* _get_cookies is exhausted: load() sorts and fills the jar (lines 631-636)
AggReturn ==
    /\ pc = "agg"
    /\ klasses = << >>
    /\ cookie_jar' = LoadJar(yielded)
    /\ pc' = "returned"
    /\ UNCHANGED <<call, plat, entry, klasses, started, klass, cookie_files, fi, keys,
                   key_local_state_path, unwrapped, tmp_files, cur, has_session_files, stdout,
                   yielded, thrown, exc>>

(***************************************************************************)
(* create_local_copy (lines 55-75).                                        *)
(***************************************************************************)
\* the temporary copy made for file i of the running loader
TmpOf(k, i) == <<k, i>>

\* a copy removed after the yield alone, with no finally
CopyRemovedNoFinally(tmps, t, how) == IF how = "exception" THEN tmps ELSE tmps \ {t}

\* the finally of line 72: the copy is removed however the with block is left
\* (how: "exhausted", "exception")
CopyRemoved(tmps, t, how) == tmps \ {t}

NotFoundCopy == BrowserCookieError("Can not find cookie file at: ")

OperationalError(text) == Exc("sqlite3.OperationalError", text, NoName, NoName)

(***************************************************************************)
(* ChromeBased.get_cookies (lines 100-185).                                *)
(***************************************************************************)
\* line 166-168: the column the query names
SecureColumn(version) == IF version < IsSecureVersion THEN "secure" ELSE "is_secure"

\* a cookie database: whether it has a meta table, its version, the column its
\* cookies table has ("" when it has no cookies table), its number of rows
ChromeDbs(most) ==
    {[meta |-> FALSE, version |-> 0, secure_column |-> "", n |-> 0]}
    \cup {[meta |-> TRUE, version |-> v, secure_column |-> c, n |-> 0] :
            v \in DbVersions, c \in {"", "secure", "is_secure"}}
    \cup [meta : {TRUE}, version : DbVersions, secure_column : {"secure", "is_secure"},
          n : 1..most]

\* lines 164-169 on a database: the error raised, or none
ChromeQuery(db) ==
    IF ~db.meta THEN Raised(OperationalError("no such table: meta"))
    ELSE IF db.secure_column = "" THEN Raised(OperationalError("no such table: cookies"))
    ELSE IF db.secure_column # SecureColumn(db.version)
         THEN Raised(OperationalError("no such column"))
    ELSE Ok(db.n)

\* the for loop over self.cookie_files: file i is next, or the loop is over
NextPc(i) == IF i > Len(cookie_files) THEN "end" ELSE "files"

\* what is left for the rows of one more file
RowBudget == Min(MaxRows, MaxCookies - Len(yielded))

\* lines 101-143: the candidate keys of the platform
ChromeKeys ==
    /\ pc = "get_cookies"
    /\ klass \in ChromeKlasses
    /\ \/ /\ plat = "darwin"
          /\ \E my_pass \in {"", "keychain"} :
               \* keyring.get_password gives None when there is no entry
               IF my_pass = ""
               THEN Throw(Exc("AttributeError",
                              "'NoneType' object has no attribute 'encode'", NoName, NoName))
               ELSE /\ keys' = <<Kdf(my_pass, DarwinIterations)>>
                    /\ pc' = NextPc(1) /\ fi' = 1 /\ thrown' = NoExc
                    /\ UNCHANGED <<klass, cookie_files, key_local_state_path, unwrapped, cur,
                                   has_session_files, exc>>
       \/ /\ plat = "linux"
          /\ \E n \in 0..MaxSecrets :
               /\ keys' = <<Kdf("peanuts", LinuxIterations)>>
                          \o [i \in 1..n |-> Kdf(SecretNames[i], LinuxIterations)]
               /\ pc' = NextPc(1) /\ fi' = 1 /\ thrown' = NoExc
               /\ UNCHANGED <<klass, cookie_files, key_local_state_path, unwrapped, cur,
                              has_session_files, exc>>
       \/ /\ plat = "linux"
          \* secretstorage.dbus_init() without a session bus
          /\ Throw(Exc("SecretServiceNotAvailableException", "", NoName, NoName))
       \/ /\ plat = "win32"
          /\ keys' = << >>
          /\ pc' = NextPc(1) /\ fi' = 1 /\ thrown' = NoExc
          /\ UNCHANGED <<klass, cookie_files, key_local_state_path, unwrapped, cur,
                         has_session_files, exc>>
       \/ /\ plat \notin {"darwin", "linux", "win32"}
          /\ Throw(BrowserCookieError("Unsupported operating system: "))
    /\ UNCHANGED <<call, plat, entry, klasses, started, tmp_files, stdout, yielded, cookie_jar>>

\* lines 152-158: the Local State path whose key is unwrapped for file f, if any
Unwraps(f) ==
    IF plat = "win32" /\ key_local_state_path # f.dir THEN <<f.dir>> ELSE << >>

\* a key unwrapped for the first file and kept for every other
KeysOfFirst(f) ==
    IF plat = "win32" /\ keys = << >> THEN <<LocalStateKey(f.dir)>> ELSE keys

\* lines 145-158: the keys after the Local State step for file f
KeysFor(f) ==
    IF plat = "win32" /\ key_local_state_path # f.dir
    THEN <<LocalStateKey(f.dir)>>
    ELSE keys

\* lines 144-169: the next store file is copied and queried
ChromeFile ==
    /\ pc = "files"
    /\ klass \in ChromeKlasses
    /\ LET f == cookie_files[fi]
           t == TmpOf(klass, fi)
       IN  \/ /\ plat = "win32"
              \* line 149: no 'User Data' parent, or no Local State in it
              /\ Throw(BrowserCookieError("Failed to find Local State folder for cookie file "))
              /\ UNCHANGED tmp_files
           \/ \* line 75: the store file is gone
              /\ Throw(NotFoundCopy)
              /\ UNCHANGED tmp_files
           \/ \E db \in ChromeDbs(RowBudget) :
                LET q == ChromeQuery(db)
                IN  IF ~q.ok
                    THEN /\ tmp_files' = CopyRemoved(tmp_files \cup {t}, t, "exception")
                         /\ Throw(q.exc)
                    ELSE /\ keys' = KeysFor(f)
                         /\ key_local_state_path' =
                              IF plat = "win32" THEN f.dir ELSE key_local_state_path
                         /\ unwrapped' = unwrapped \o Unwraps(f)
                         /\ thrown' = NoExc
                         /\ IF q.val = 0
                            THEN /\ tmp_files' = CopyRemoved(tmp_files \cup {t}, t, "exhausted")
                                 /\ fi' = fi + 1
                                 /\ pc' = NextPc(fi + 1)
                                 /\ UNCHANGED cur
                            ELSE /\ tmp_files' = tmp_files \cup {t}
                                 /\ cur' = [kind |-> "chrome", version |-> db.version,
                                            rows_left |-> q.val,
                                            opened |-> "tmp_cookie_file"]
                                 /\ pc' = "rows"
                                 /\ UNCHANGED fi
                         /\ UNCHANGED <<klass, cookie_files, has_session_files, exc>>
    /\ UNCHANGED <<call, plat, entry, klasses, started, stdout, yielded, cookie_jar>>

\* the with block is left after the last row: the copy goes, the next file comes
AfterRow(t) ==
    IF cur.rows_left = 1
    THEN /\ tmp_files' = CopyRemoved(tmp_files, t, "exhausted")
         /\ cur' = NoCur
         /\ fi' = fi + 1
         /\ pc' = NextPc(fi + 1)
    ELSE /\ cur' = [cur EXCEPT !.rows_left = @ - 1]
         /\ UNCHANGED <<tmp_files, fi, pc>>

\* lines 170-185 with the failing row passed over: the error is noted and the
\* loop goes on with the next row
ChromeRowStepGoesOn ==
    /\ pc = "rows"
    /\ cur.kind = "chrome"
    /\ \E item \in ChromeItems(plat) :
         LET r == ChromeRow(plat, item, keys, cur.version).res
         IN  /\ yielded' = IF r.ok THEN Append(yielded, r.val) ELSE yielded
             /\ AfterRow(TmpOf(klass, fi))
             /\ thrown' = IF r.ok THEN NoExc ELSE r.exc
             /\ UNCHANGED <<klass, cookie_files, keys, key_local_state_path, unwrapped,
                            has_session_files, exc>>
    /\ UNCHANGED <<call, plat, entry, klasses, started, stdout, cookie_jar>>

\* lines 170-185: one row of the cookies table
ChromeRowStep ==
    /\ pc = "rows"
    /\ cur.kind = "chrome"
    /\ \E item \in ChromeItems(plat) :
         LET r == ChromeRow(plat, item, keys, cur.version).res
         IN  IF r.ok
             THEN /\ yielded' = Append(yielded, r.val)
                  /\ AfterRow(TmpOf(klass, fi))
                  /\ thrown' = NoExc
                  /\ UNCHANGED <<klass, cookie_files, keys, key_local_state_path, unwrapped,
                                 has_session_files, exc>>
             ELSE /\ tmp_files' = CopyRemoved(tmp_files, TmpOf(klass, fi), "exception")
                  /\ Throw(r.exc)
                  /\ UNCHANGED yielded
    /\ UNCHANGED <<call, plat, entry, klasses, started, stdout, cookie_jar>>

\* get_cookies is exhausted: _get_cookies goes on with the next class, a
\* single-browser load() sorts and fills the jar (lines 93-96)
Exhausted ==
    /\ pc = "end"
    /\ stdout' = IF klass = "Firefox" /\ ~has_session_files
                 THEN stdout \cup {"Could not find any Firefox session files"}
                 ELSE stdout
    /\ thrown' = NoExc
    /\ LoaderReset
    /\ IF entry = "load"
       THEN pc' = "agg" /\ UNCHANGED cookie_jar
       ELSE pc' = "returned" /\ cookie_jar' = LoadJar(yielded)
    /\ UNCHANGED <<call, plat, entry, klasses, started, tmp_files, yielded, exc>>

(***************************************************************************)
(* Firefox.get_cookies (lines 410-449).                                    *)
(***************************************************************************)
\* time.time() when a session file is read
Now == {1000}

SessionItems == [host : {<<"a">>}, path : Paths, name : Names, value : {Str(<<67>>)}]

\* line 411
FirefoxStart ==
    /\ pc = "get_cookies"
    /\ klass = "Firefox"
    /\ has_session_files' = FALSE
    /\ fi' = 1
    /\ pc' = NextPc(1)
    /\ thrown' = NoExc
    /\ UNCHANGED <<call, plat, entry, klasses, started, klass, cookie_files, keys,
                   key_local_state_path, unwrapped, tmp_files, cur, stdout, yielded, exc, cookie_jar>>

\* the rows of an opened file: none, and the next file comes, or n to yield
Opened(t, kind, n) ==
    IF n = 0
    THEN /\ tmp_files' = CopyRemoved(tmp_files \cup {t}, t, "exhausted")
         /\ fi' = fi + 1
         /\ pc' = NextPc(fi + 1)
         /\ UNCHANGED cur
    ELSE /\ tmp_files' = tmp_files \cup {t}
         /\ cur' = [kind |-> kind, version |-> 0, rows_left |-> n,
                    opened |-> "tmp_cookie_file"]
         /\ pc' = "rows"
         /\ UNCHANGED fi

\* lines 412-443: the next file is copied; a .sqlite file is queried, any other
\* is read as a session document
FirefoxFile ==
    /\ pc = "files"
    /\ klass = "Firefox"
    /\ LET f == cookie_files[fi]
           t == TmpOf(klass, fi)
       IN  \/ /\ Throw(NotFoundCopy)
              /\ UNCHANGED <<tmp_files, stdout>>
           \/ /\ f.suffix = ".sqlite"
              /\ tmp_files' = CopyRemoved(tmp_files \cup {t}, t, "exception")
              /\ Throw(OperationalError("no such table: moz_cookies"))
              /\ UNCHANGED stdout
           \/ /\ f.suffix = ".sqlite"
              /\ \E n \in 0..RowBudget : Opened(t, "moz", n)
              /\ thrown' = NoExc
              /\ UNCHANGED <<klass, cookie_files, keys, key_local_state_path, unwrapped,
                             has_session_files, exc, stdout>>
           \/ /\ f.suffix = ".jsonlz4"
              \* lz4.block.decompress fails with LZ4BlockError, which is no ValueError
              /\ tmp_files' = CopyRemoved(tmp_files \cup {t}, t, "exception")
              /\ Throw(Exc("LZ4BlockError", "Decompression failed", NoName, NoName))
              /\ UNCHANGED stdout
           \/ /\ f.suffix # ".sqlite"
              \* lines 430-433 and 437-440: json_data stays None
              /\ \E msg \in {"Could not read file:",
                             IF f.suffix = ".jsonlz4"
                             THEN "Error parsing Firefox session file:"
                             ELSE "Error parsing firefox session JSON:"} :
                   stdout' = stdout \cup {msg}
              /\ Opened(t, "session", 0)
              /\ thrown' = NoExc
              /\ UNCHANGED <<klass, cookie_files, keys, key_local_state_path, unwrapped,
                             has_session_files, exc>>
           \/ /\ f.suffix # ".sqlite"
              \* lines 442-447
              /\ has_session_files' = TRUE
              /\ \E n \in 0..RowBudget : Opened(t, "session", n)
              /\ thrown' = NoExc
              /\ UNCHANGED <<klass, cookie_files, keys, key_local_state_path, unwrapped, exc, stdout>>
    /\ UNCHANGED <<call, plat, entry, klasses, started, yielded, cookie_jar>>

\* lines 420-421
MozRow ==
    /\ pc = "rows"
    /\ cur.kind = "moz"
    /\ \E item \in MozItems :
         yielded' = Append(yielded, create_cookie(item.host, item.path, item.isSecure,
                                                  Float(item.expiry, 0), item.name,
                                                  item.value))
    /\ AfterRow(TmpOf(klass, fi))
    /\ thrown' = NoExc
    /\ UNCHANGED <<call, plat, entry, klasses, started, klass, cookie_files, keys,
                   key_local_state_path, unwrapped, has_session_files, stdout, exc, cookie_jar>>

\* lines 444-447
SessionRow ==
    /\ pc = "rows"
    /\ cur.kind = "session"
    /\ \E item \in SessionItems, now \in Now :
         yielded' = Append(yielded, create_cookie(item.host, item.path, FALSE,
                                                  Float(now + SessionLifetime, 0),
                                                  item.name, item.value))
    /\ AfterRow(TmpOf(klass, fi))
    /\ thrown' = NoExc
    /\ UNCHANGED <<call, plat, entry, klasses, started, klass, cookie_files, keys,
                   key_local_state_path, unwrapped, has_session_files, stdout, exc, cookie_jar>>

(***************************************************************************)
(* Safari.get_cookies (lines 466-562).  The file read is always            *)
(* ~/Library/Cookies/Cookies.binarycookies, whatever self.cookie_files is. *)
(***************************************************************************)
\* secure whenever the lowest bit of flags is set
SafariSecureBit(flags) == flags % 2 = 1

\* lines 506-517
SafariSecure(flags) ==
    IF flags = 1 THEN TRUE
    ELSE IF flags = 4 THEN FALSE
    ELSE IF flags = 5 THEN TRUE
    ELSE FALSE

SafariItems ==
    [host : {<<"a">>}, path : Paths, flags : {0, 1}, expiry : {100}, name : Names,
     value : {Str(<<65>>)}]

StructError == Exc("struct.error", "unpack requires a buffer of 4 bytes", NoName, NoName)

(***************************************************************************)
(* One cookie of a page (lines 499-560).  cookie is the buffer             *)
(* page.read(cookiesize) gives after the four bytes of cookiesize were     *)
(* read: the fields lines 504-526 read, HeaderLen bytes, then the bytes    *)
(* tail holds, cut at cookiesize bytes in all.  The offsets count from the *)
(* start of the entry, four bytes before the buffer.                       *)
(***************************************************************************)
\* the bytes lines 504-526 read: 4 skipped, flags, 4 skipped, 4 offsets, a double
HeaderLen == 4 + 4 + 4 + 4 * 4 + 8

\* seconds between 1970-01-01 and 2001-01-01 (line 526)
MacEpoch == 978307200

\* the ASCII characters the entries hold
Chr(b) ==
    CASE b = 46 -> "."
      [] b = 47 -> "/"
      [] b = 65 -> "A"
      [] b = 80 -> "P"
      [] b = 97 -> "a"
      [] b = 115 -> "s"

\* StringIO(page.read(cookiesize)): the bytes of the buffer after its header
CookieBuffer(cookiesize, tail) == SliceTo(tail, cookiesize - HeaderLen)

\* lines 532-558, one field: cookie.seek(offset - 4), then cookie.read(1) until
\* a zero byte; read(1) at the end gives b'', which unpack('<b') rejects, and a
\* byte of 0x80 or more does not decode.  pos counts from the end of the header.
RECURSIVE ReadField(_, _)
ReadField(buffer, pos) ==
    IF pos > Len(buffer) THEN Raised(StructError)
    ELSE IF buffer[pos] = 0 THEN Ok(<< >>)
    ELSE IF buffer[pos] >= 128
         THEN Raised(Exc("UnicodeDecodeError", "utf-8", NoName, NoName))
    ELSE LET rest == ReadField(buffer, pos + 1)
         IN  IF rest.ok THEN Ok(<<buffer[pos]>> \o rest.val) ELSE rest

\* the field at an offset of the entry
FieldAt(buffer, offset) == ReadField(buffer, offset - 4 - HeaderLen + 1)

\* line 526: str(int(d + 978307200)), which Cookie converts with int(float())
SafariExpiry(d) == Float(IntOfFloat(Float(d.int + MacEpoch, d.micros)), 0)

\* lines 501-560 on one entry: the record yielded, or the exception raised
SafariEntry(e) ==
    LET buffer == CookieBuffer(e.cookiesize, e.tail)
        host == FieldAt(buffer, e.urloffset)
        name == FieldAt(buffer, e.nameoffset)
        path == FieldAt(buffer, e.pathoffset)
        value == FieldAt(buffer, e.valueoffset)
    IN  IF ~host.ok THEN host
        ELSE IF ~name.ok THEN name
        ELSE IF ~path.ok THEN path
        ELSE IF ~value.ok THEN value
        ELSE Ok(create_cookie([i \in DOMAIN host.val |-> Chr(host.val[i])],
                              [i \in DOMAIN path.val |-> Chr(path.val[i])],
                              SafariSecure(e.flags), SafariExpiry(e.expiry),
                              [i \in DOMAIN name.val |-> Chr(name.val[i])],
                              Str(value.val)))

\* lines 467-496: the file is opened and its page and cookie counts are read
SafariOpen ==
    /\ pc = "get_cookies"
    /\ klass = "Safari"
    /\ \/ \* lines 471-473: open fails; the error is built, not raised, and exit() ends
          Throw(Exc("SystemExit", "", NoName, NoName))
       \/ /\ plat # "darwin"
          \* unpack is imported on darwin alone (lines 40-41)
          /\ Throw(Exc("NameError", "name 'unpack' is not defined", NoName, NoName))
       \/ /\ plat = "darwin"
          /\ Throw(StructError)
       \/ /\ plat = "darwin"
          /\ \E n \in 0..RowBudget :
               IF n = 0
               THEN pc' = "end" /\ UNCHANGED cur
               ELSE /\ pc' = "rows"
                    \* line 470: open(FilePath, 'rb'), the store file itself
                    /\ cur' = [kind |-> "safari", version |-> 0, rows_left |-> n,
                               opened |-> "FilePath"]
          /\ thrown' = NoExc
          /\ UNCHANGED <<klass, cookie_files, fi, keys, key_local_state_path, unwrapped,
                         has_session_files, exc>>
    /\ UNCHANGED <<call, plat, entry, klasses, started, tmp_files, stdout, yielded, cookie_jar>>

\* lines 499-560: one cookie of a page
SafariRow ==
    /\ pc = "rows"
    /\ cur.kind = "safari"
    /\ \/ /\ Throw(StructError)
          /\ UNCHANGED yielded
       \/ /\ \E item \in SafariItems :
               yielded' = Append(yielded, create_cookie(item.host, item.path,
                                                        SafariSecure(item.flags),
                                                        Float(item.expiry, 0), item.name,
                                                        item.value))
          /\ IF cur.rows_left = 1
             THEN cur' = NoCur /\ pc' = "end"
             ELSE cur' = [cur EXCEPT !.rows_left = @ - 1] /\ UNCHANGED pc
          /\ thrown' = NoExc
          /\ UNCHANGED <<klass, cookie_files, fi, keys, key_local_state_path, unwrapped,
                         has_session_files, exc>>
    /\ UNCHANGED <<call, plat, entry, klasses, started, tmp_files, stdout, cookie_jar>>

(***************************************************************************)
(* The specifications.                                                     *)
(***************************************************************************)
Loader ==
    \/ ChromeKeys
    \/ ChromeFile
    \/ ChromeRowStep
    \/ FirefoxStart
    \/ FirefoxFile
    \/ MozRow
    \/ SessionRow
    \/ Exhausted

\* load()
NextAgg ==
    \/ Load
    \/ AggKlass
    \/ AggReturn
    \/ Loader

SpecAgg == Init /\ [][NextAgg]_vars

\* the single-browser entry points
NextOne ==
    \/ Single
    \/ SafariOpen
    \/ SafariRow
    \/ Loader

SpecOne == Init /\ [][NextOne]_vars

\* either kind of entry point
NextAny ==
    \/ Load
    \/ AggKlass
    \/ AggReturn
    \/ Single
    \/ SafariOpen
    \/ SafariRow
    \/ Loader

SpecAny == Init /\ [][NextAny]_vars

(***************************************************************************)
(* ChromeBased._decrypt and the key loop, called on their own.             *)
(***************************************************************************)
\* the key lists get_cookies builds (lines 104-141 and 158)
KeyLists(platform) ==
    CASE platform = "darwin" -> {<<Kdf("keychain", DarwinIterations)>>}
      [] platform = "linux" ->
           {<<Kdf("peanuts", LinuxIterations)>>
              \o [i \in 1..n |-> Kdf(SecretNames[i], LinuxIterations)] : n \in 0..MaxSecrets}
      [] platform = "win32" -> {<<LocalStateKey("A")>>, <<LocalStateKey("B")>>}
      [] OTHER -> {}

FnVersions == {9, PrefixVersion - 1, PrefixVersion, PrefixVersion + 1}

FnItems(platform) ==
    {[host_key |-> <<".", "a">>, path |-> <<"/">>, is_secure |-> 1,
      expires_utc |-> [mega |-> EpochMega, sec |-> EpochRest + 100, micros |-> 0],
      name |-> <<"s">>, value |-> v, encrypted_value |-> e] :
        v \in {<< >>, <<67>>}, e \in EncryptedValues(platform)}

\* self._decrypt(value, encrypted_value, name, path, key, version)
CallDecrypt ==
    /\ pc = "idle"
    /\ call = NoCall
    /\ plat \in {"darwin", "linux", "win32"}
    /\ \E item \in FnItems(plat), key \in ByKeys(plat) \ {NoKey, DpapiUser},
          version \in FnVersions :
         call' = [fn |-> "_decrypt", item |-> item, key |-> key, version |-> version,
                  out |-> DecryptOn(plat, item.value, item.encrypted_value, item.name,
                                    item.path, key, version)]
    /\ UNCHANGED <<plat, entry, pc, klasses, started, klass, cookie_files, fi, keys,
                   key_local_state_path, unwrapped, tmp_files, cur, has_session_files, stdout,
                   yielded, thrown, exc, cookie_jar>>

\* lines 171-185 on one row
CallRow ==
    /\ pc = "idle"
    /\ call = NoCall
    /\ plat \in {"darwin", "linux", "win32"}
    /\ \E item \in FnItems(plat), ks \in KeyLists(plat), version \in FnVersions :
         call' = [fn |-> "row", item |-> item, keys |-> ks, version |-> version,
                  out |-> ChromeRow(plat, item, ks, version)]
    /\ UNCHANGED <<plat, entry, pc, klasses, started, klass, cookie_files, fi, keys,
                   key_local_state_path, unwrapped, tmp_files, cur, has_session_files, stdout,
                   yielded, thrown, exc, cookie_jar>>

\* the strings of a well-formed entry but the last: "a", "s", "/"
EntryStrings == <<97, 0, 115, 0, 47, 0>>

\* the flags words
EntryFlags == {-1, 0, 1, 2, 3, 4, 5, 6, 7, 8, 2147483647}

\* the offset of string i of a well-formed entry
GoodOffset(i) == 4 + HeaderLen + 2 * (i - 1)

\* entries: the value field ends with its zero byte or without; cookiesize is
\* the size of the entry, the four bytes of cookiesize included; the page goes
\* on after the entry with nothing, with the cookiesize of a next entry, or
\* with bytes that are not zero; one offset at most points elsewhere, at or
\* after the end of the entry
SafariEntries ==
    {[cookiesize |-> 4 + HeaderLen + Len(EntryStrings \o v), flags |-> flags,
      urloffset |-> o[1], nameoffset |-> o[2], pathoffset |-> o[3],
      valueoffset |-> o[4], expiry |-> Float(100, 0),
      tail |-> EntryStrings \o v \o after] :
        v \in {<<65, 0>>, <<65>>},
        after \in {<< >>, <<80, 0, 0, 0>>, <<1, 1, 1, 1>>},
        flags \in EntryFlags,
        o \in {[i \in 1..4 |-> IF i = bad THEN 4 + HeaderLen + 6 + d ELSE GoodOffset(i)] :
                 bad \in 0..4, d \in {1, 2, 4, 5, 6, 12}}}

\* lines 501-560 on one entry
CallSafariEntry ==
    /\ pc = "idle"
    /\ call = NoCall
    /\ plat = "darwin"
    /\ \E e \in SafariEntries :
         call' = [fn |-> "safari_entry", entry |-> e, out |-> SafariEntry(e)]
    /\ UNCHANGED <<plat, entry, pc, klasses, started, klass, cookie_files, fi, keys,
                   key_local_state_path, unwrapped, tmp_files, cur, has_session_files,
                   stdout, yielded, thrown, exc, cookie_jar>>

\* expires_utc columns of rows that expire from 1902 on: whole seconds and
\* fractions, before 1970-01-01 and after
FnExpiresUtc ==
    {[mega |-> EpochMega, sec |-> EpochRest + d.sec, micros |-> d.micros] :
        d \in {[sec |-> 100, micros |-> 0], [sec |-> 200, micros |-> 500000],
               [sec |-> 0, micros |-> 0], [sec |-> 0, micros |-> 1],
               [sec |-> -1, micros |-> 0], [sec |-> -1, micros |-> 500000],
               [sec |-> -101, micros |-> 999999]}}
    \cup {[mega |-> EpochMega - 2000, sec |-> 0, micros |-> m] : m \in {0, 250000}}

\* lines 175 and 182 on the expires_utc of a row
CallExpires ==
    /\ pc = "idle"
    /\ call = NoCall
    /\ \E e \in FnExpiresUtc :
         call' = [fn |-> "expires", expires_utc |-> e,
                  out |-> create_cookie(<<".", "a">>, <<"/">>, 1, ChromeExpires(e),
                                        <<"s">>, Str(<<65>>)).expires]
    /\ UNCHANGED <<plat, entry, pc, klasses, started, klass, cookie_files, fi, keys,
                   key_local_state_path, unwrapped, tmp_files, cur, has_session_files,
                   stdout, yielded, thrown, exc, cookie_jar>>

\* lines 79-81 on the list a caller passes and on what discovery gives
CallInit ==
    /\ pc = "idle"
    /\ call = NoCall
    /\ \E k \in EntryKlasses : \E arg \in Args(k) :
         \E found \in find_cookie_files(k, plat) :
           call' = [fn |-> "__init__", klass |-> k, arg |-> arg, found |-> found,
                    out |-> BrowserCookieLoaderInit(arg, found)]
    /\ UNCHANGED <<plat, entry, pc, klasses, started, klass, cookie_files, fi, keys,
                   key_local_state_path, unwrapped, tmp_files, cur, has_session_files,
                   stdout, yielded, thrown, exc, cookie_jar>>

NextFn ==
    \/ CallDecrypt
    \/ CallRow
    \/ CallSafariEntry
    \/ CallExpires
    \/ CallInit

SpecFn == Init /\ [][NextFn]_vars

(***************************************************************************)
(* The error kinds of the specification, as the code raises them.          *)
(***************************************************************************)
\* NotFound: no store file, no profile
IsNotFound(e) ==
    /\ e.kind = "BrowserCookieError"
    /\ e.text \in {"Can not find cookie file at: ",
                   "Could not find default Firefox profile",
                   "No default Firefox profile found",
                   "Failed to find Firefox cookies",
                   "Failed to find Safari cookies",
                   "Failed to find Local State folder for cookie file "}

\* what get_cookies raises when keyring.get_password returned None (line 107)
IsNoKeychainEntry(e) == e.text = "'NoneType' object has no attribute 'encode'"

\* KeyUnavailable: an error of the library, the only kind _get_cookies passes over
IsKeyUnavailable(e) == e.kind = "BrowserCookieError"

\* DecryptionError: no candidate key decrypts a row
IsDecryptionError(e) ==
    /\ e.kind = "BrowserCookieError"
    /\ e.text \in {"Error decrypting cookie", "Error decrypting V80+ cookie"}

\* CorruptStore: the relational store lacks the expected table or columns, or
\* the binary container ends early
IsCorruptStore(e) == e.kind \in {"sqlite3.OperationalError", "struct.error"}

Count(s, x) == Cardinality({i \in DOMAIN s : s[i] = x})

\* s and t hold the same records, each as often
SameRecords(s, t) ==
    /\ Len(s) = Len(t)
    /\ \A i \in DOMAIN s : Count(s, s[i]) = Count(t, s[i])

(***************************************************************************)
(* C1.  In load(), a loader that fails with NotFound does not stop the     *)
(* call: the exception does not reach the caller, _get_cookies is at its   *)
(* loop with the classes after the failed one still to come, and when      *)
(* load() returns every class of the list was constructed and every record *)
(* the loaders yielded was inserted into the jar.                          *)
(***************************************************************************)
C1_NotFoundSkipped ==
    /\ (entry = "load" /\ IsNotFound(thrown) /\ ~cookie_jar.returned) =>
          /\ pc = "agg"
          /\ exc = NoExc
          /\ started \o klasses = AllKlasses
    /\ (entry = "load" /\ cookie_jar.returned) =>
          /\ started = AllKlasses
          /\ exc = NoExc
          /\ SameRecords(cookie_jar.inserted, yielded)

\* a jar returned with a record in it although the last loader failed with NotFound
C1_Witness ==
    /\ entry = "load"
    /\ cookie_jar.returned
    /\ IsNotFound(thrown)
    /\ cookie_jar.inserted # << >>

(***************************************************************************)
(* C2.  On darwin, when the keychain has no entry the Chromium-family      *)
(* loader fails with KeyUnavailable, which load() passes over: the         *)
(* exception does not reach the caller and the next loader runs.           *)
(***************************************************************************)
C2_KeyUnavailableSkipped ==
    (entry = "load" /\ plat = "darwin" /\ IsNoKeychainEntry(thrown)) =>
        /\ IsKeyUnavailable(thrown)
        /\ pc \in {"agg", "returned"}
        /\ exc = NoExc

(***************************************************************************)
(* C3.  In load(), a loader that fails with DecryptionError or with        *)
(* CorruptStore is passed over: neither kind reaches the caller.           *)
(***************************************************************************)
C3_DecryptionAndCorruptSkipped ==
    /\ (entry = "load" /\ (IsDecryptionError(thrown) \/ IsCorruptStore(thrown))
          /\ ~cookie_jar.returned) =>
          /\ pc = "agg"
          /\ exc = NoExc
    /\ entry = "load" => ~IsDecryptionError(exc) /\ ~IsCorruptStore(exc)

(***************************************************************************)
(* C4.  load() inserts the records in nondecreasing order of expires, and  *)
(* the inserted sequence holds every record the loaders yielded.           *)
(***************************************************************************)
C4_InsertedSortedAndComplete ==
    (entry = "load" /\ cookie_jar.returned) =>
        /\ \A i, j \in DOMAIN cookie_jar.inserted :
              i < j => cookie_jar.inserted[i].expires <= cookie_jar.inserted[j].expires
        /\ SameRecords(cookie_jar.inserted, yielded)

\* the loader after which the list ended failed with NotFound, one before it
\* yielded expires 200 then 100, and the jar was filled in the order 100, 200
C4_Witness ==
    /\ entry = "load"
    /\ cookie_jar.returned
    /\ IsNotFound(thrown)
    /\ Len(yielded) = 2
    /\ yielded[1].expires = 200
    /\ yielded[2].expires = 100
    /\ cookie_jar.inserted[1].expires = 100
    /\ cookie_jar.inserted[2].expires = 200

(***************************************************************************)
(* C5.  A single loader's load(): whatever the order get_cookies yields    *)
(* in, the jar has one entry for each identity (host, path, name) yielded, *)
(* and where one yielded record of an identity has a higher expires than   *)
(* every other of that identity, the entry holds that record's value.      *)
(***************************************************************************)
C5_HighestExpiresWins ==
    (entry \in EntryKlasses /\ cookie_jar.returned) =>
        /\ DOMAIN cookie_jar.jar = {Identity(yielded[i]) : i \in DOMAIN yielded}
        /\ \A i \in DOMAIN yielded :
              (\A j \in DOMAIN yielded :
                  (j # i /\ Identity(yielded[j]) = Identity(yielded[i]))
                     => yielded[j].expires < yielded[i].expires)
              => cookie_jar.jar[Identity(yielded[i])].value = yielded[i].value

\* the record of higher expires came first and has another value than the later one
C5_Witness ==
    /\ entry \in EntryKlasses
    /\ cookie_jar.returned
    /\ Len(yielded) = 2
    /\ Identity(yielded[1]) = Identity(yielded[2])
    /\ yielded[1].expires > yielded[2].expires
    /\ yielded[1].value # yielded[2].value
    /\ cookie_jar.jar[Identity(yielded[1])].value = yielded[1].value

(***************************************************************************)
(* C6.  Constructing a loader without a file list when discovery finds no  *)
(* store file fails with NotFound: no loader exists with an empty file     *)
(* list, and no call ends in a TypeError for the lack of a file list.      *)
(***************************************************************************)
C6_NoLoaderWithoutFiles ==
    /\ klass # "" => cookie_files # << >>
    /\ pc = "raised" => exc.kind # "TypeError"

(***************************************************************************)
(* C10.  A temporary copy exists only while the rows of its store file are *)
(* being read: it is gone once the file's rows are exhausted, once a row   *)
(* raised the decryption error, and once a query failed.                   *)
(***************************************************************************)
C10_NoCopyLeft ==
    /\ tmp_files # {} => (pc = "rows" /\ tmp_files = {TmpOf(klass, fi)})
    /\ pc \in {"end", "returned", "raised", "agg"} => tmp_files = {}

\* a row raised the decryption error after records were yielded from the
\* copies, and no copy is left
C10_Witness ==
    /\ pc = "raised"
    /\ IsDecryptionError(thrown)
    /\ yielded # << >>
    /\ tmp_files = {}

(***************************************************************************)
(* C7.  For a row, the candidate keys are tried in list order: the record  *)
(* carries the value of the lowest-index key whose decryption raises no    *)
(* error, and no later key is tried; if every key fails no record is       *)
(* emitted and the row fails with a decryption error naming the cookie and *)
(* the host.                                                               *)
(***************************************************************************)
\* _decrypt of the row under key i of the list
RowUnder(i) ==
    DecryptOn(plat, call.item.value, call.item.encrypted_value, call.item.name,
              call.item.path, call.keys[i], call.version)

\* the indexes of the keys under which _decrypt raises nothing
GoodKeys == {i \in 1..Len(call.keys) : RowUnder(i).ok}

C7_FirstKeyWins ==
    call.fn = "row" =>
        IF GoodKeys # {}
        THEN \E i \in GoodKeys :
               /\ \A j \in GoodKeys : i <= j
               /\ call.out.res.ok
               /\ call.out.res.val.value = RowUnder(i).val
               /\ call.out.tried = i
        ELSE /\ ~call.out.res.ok
             /\ IsDecryptionError(call.out.res.exc)
             /\ call.out.res.exc.cookie = call.item.name
             /\ call.out.res.exc.site = call.item.host_key

\* the same, but for the name of the site in the error
C7_FirstKeyWinsButSite ==
    call.fn = "row" =>
        IF GoodKeys # {}
        THEN \E i \in GoodKeys :
               /\ \A j \in GoodKeys : i <= j
               /\ call.out.res.ok
               /\ call.out.res.val.value = RowUnder(i).val
               /\ call.out.tried = i
        ELSE /\ ~call.out.res.ok
             /\ IsDecryptionError(call.out.res.exc)
             /\ call.out.res.exc.cookie = call.item.name
             /\ call.out.res.exc.site \in {call.item.host_key, call.item.path}

(***************************************************************************)
(* C8.  _decrypt returns the plain value column unchanged, for any key and *)
(* any version, whenever that column is non-empty, on every platform; and  *)
(* on darwin and linux also whenever the encrypted column does not begin   *)
(* with v10 or v11.                                                        *)
(***************************************************************************)
C8_PassThroughEverywhere ==
    (call.fn = "_decrypt"
       /\ \/ call.item.value # << >>
          \/ /\ plat \in {"darwin", "linux"}
             /\ call.item.encrypted_value.marker \notin {"v10", "v11"})
    => call.out = Ok(Bytes(call.item.value))

(***************************************************************************)
(* C8, amended.  On darwin and linux _decrypt returns the plain value      *)
(* column unchanged, for any key and any version, whenever that column is  *)
(* non-empty or the encrypted column does not begin with v10 or v11.  On   *)
(* win32 the plain value column is not read: a result is the decoding of   *)
(* what the encrypted column decrypts to.                                  *)
(***************************************************************************)
C8_PassThroughPosix ==
    /\ (call.fn = "_decrypt" /\ plat \in {"darwin", "linux"}
          /\ \/ call.item.value # << >>
             \/ call.item.encrypted_value.marker \notin {"v10", "v11"})
       => call.out = Ok(Bytes(call.item.value))
    /\ (call.fn = "_decrypt" /\ plat = "win32" /\ call.out.ok)
       => call.out.val.type = "str"

\* a plain value beside a blob the key decrypts, in a store of version 24 or
\* later: the plain value is returned
C8_Witness ==
    /\ call.fn = "_decrypt"
    /\ plat = "linux"
    /\ call.item.value # << >>
    /\ call.item.encrypted_value.marker = "v10"
    /\ call.item.encrypted_value.body.by = call.key
    /\ call.version >= PrefixVersion
    /\ call.out = Ok(Bytes(call.item.value))

(***************************************************************************)
(* C9.  Whenever _decrypt decrypts (the cipher gives a plaintext): for     *)
(* version >= 24 the result is the UTF-8 decoding of the plaintext without *)
(* its first 32 bytes, so a 32-byte prefix followed by a UTF-8 payload     *)
(* gives that payload; for version < 24 no byte is removed.                *)
(***************************************************************************)
\* what the cipher makes of the encrypted column under the key of the call
Deciphered ==
    IF plat \in {"darwin", "linux"}
    THEN IF call.item.value # << >>
            \/ call.item.encrypted_value.marker \notin {"v10", "v11"}
         THEN Raised(NoExc)
         ELSE CbcDecrypt(call.item.encrypted_value.body, call.key)
    ELSE IF call.item.encrypted_value.marker = "v10"
         THEN GcmDecrypt(call.item.encrypted_value.body, call.key)
         ELSE CryptUnprotectData(call.item.encrypted_value.body)

C9_PrefixStripped ==
    (call.fn = "_decrypt" /\ Deciphered.ok) =>
        LET plaintext == Deciphered.val
        IN  /\ call.version >= 24 =>
                 /\ call.out = Utf8Decode(SliceFrom(plaintext, 32))
                 /\ \A payload \in {<<66>>, <<195, 169>>}, b \in {0, 255} :
                       plaintext = Fill(32, b) \o payload
                          => call.out = Ok(Str(Utf8Chars(payload)))
            /\ call.version < 24 => call.out = Utf8Decode(plaintext)

\* 32 bytes that are no UTF-8, then the two bytes of U+00E9: the result is U+00E9
C9_Witness ==
    /\ call.fn = "_decrypt"
    /\ call.version = 24
    /\ Deciphered.ok
    /\ Deciphered.val = Fill(32, 255) \o <<195, 169>>
    /\ call.out = Ok(Str(<<233>>))

(***************************************************************************)
(* C11.  Every loader decodes cookie data from a temporary copy of the     *)
(* store file alone: whenever rows are being read, the reader was opened   *)
(* on the copy made for the current file, and that copy exists.            *)
(***************************************************************************)
C11_ReadsCopyOnly ==
    cur.kind # "" =>
        /\ cur.opened = "tmp_cookie_file"
        /\ TmpOf(klass, fi) \in tmp_files

\* the same of the Chromium-family and Firefox loaders alone
C11_ReadsCopyOnlyButSafari ==
    (cur.kind # "" /\ cur.kind # "safari") =>
        /\ cur.opened = "tmp_cookie_file"
        /\ TmpOf(klass, fi) \in tmp_files

(***************************************************************************)
(* C12.  On win32, while the store files are processed in order, the key   *)
(* of a Local State file is unwrapped for a store file only when the file  *)
(* resolves to another Local State path than the one the cached key came   *)
(* from; and whenever the rows of a file are decrypted, the candidate keys *)
(* are exactly the one key unwrapped from that file's own Local State.     *)
(***************************************************************************)
\* s without the elements that repeat their predecessor
RECURSIVE Collapse(_)
Collapse(s) ==
    IF Len(s) <= 1 THEN s
    ELSE LET front == Collapse(SubSeq(s, 1, Len(s) - 1))
         IN  IF s[Len(s)] = s[Len(s) - 1] THEN front ELSE Append(front, s[Len(s)])

\* the Local State paths of the first n store files
LocalStatePaths(n) == [i \in 1..n |-> cookie_files[i].dir]

C12_LocalStateKeyCached ==
    (plat = "win32" /\ klass \in ChromeKlasses) =>
        /\ pc = "rows" =>
              /\ keys = <<LocalStateKey(cookie_files[fi].dir)>>
              /\ unwrapped = Collapse(LocalStatePaths(fi))
        /\ pc \in {"files", "end"} => unwrapped = Collapse(LocalStatePaths(fi - 1))

\* the rows of a second store file are read under the key unwrapped for the
\* first, which has the same Local State
C12_Witness ==
    /\ plat = "win32"
    /\ klass \in ChromeKlasses
    /\ pc = "rows"
    /\ fi = 2
    /\ cookie_files[1] # cookie_files[2]
    /\ cookie_files[1].dir = cookie_files[2].dir
    /\ unwrapped = <<cookie_files[1].dir>>
    /\ keys = <<LocalStateKey(cookie_files[2].dir)>>

(***************************************************************************)
(* C13.  In the Safari parser, an offset of a string field that points     *)
(* past the declared size of the entry, or a string field with no zero     *)
(* byte before the end of the entry, makes the entry fail with             *)
(* CorruptStore: no record is built from such an entry.                    *)
(***************************************************************************)
\* the byte at offset k of the entry, for a k after the header
EntryByte(e, k) == e.tail[k - 4 - HeaderLen + 1]

\* the field at offset o has its zero byte inside the entry
Terminated(e, o) ==
    \E k \in o..(e.cookiesize - 1) :
        /\ k - 4 - HeaderLen + 1 \in DOMAIN e.tail
        /\ EntryByte(e, k) = 0

\* an offset points past the entry, or a field does not end in it
Malformed(e) ==
    \E o \in {e.urloffset, e.nameoffset, e.pathoffset, e.valueoffset} :
        o >= e.cookiesize \/ ~Terminated(e, o)

C13_MalformedEntryFails ==
    (call.fn = "safari_entry" /\ Malformed(call.entry)) =>
        /\ ~call.out.ok
        /\ IsCorruptStore(call.out.exc)

\* the same of an entry that is the last thing in its page
C13_MalformedLastEntryFails ==
    (call.fn = "safari_entry" /\ Malformed(call.entry)
       /\ Len(call.entry.tail) = call.entry.cookiesize - 4 - HeaderLen) =>
        /\ ~call.out.ok
        /\ IsCorruptStore(call.out.exc)

(***************************************************************************)
(* C14.  In the Safari parser the record's secure attribute is true        *)
(* exactly when the flags word is 1 or 5, and false for 0, 4 and every     *)
(* other value.                                                            *)
(***************************************************************************)
C14_SecureFromFlags ==
    (call.fn = "safari_entry" /\ call.out.ok) =>
        /\ call.out.val.secure \in BOOLEAN
        /\ call.out.val.secure <=> call.entry.flags \in {1, 5}

\* a record built from an entry whose flags word is 5, and secure
C14_Witness ==
    /\ call.fn = "safari_entry"
    /\ call.entry.flags = 5
    /\ call.out.ok
    /\ call.out.val.secure = TRUE

(***************************************************************************)
(* C15.  In Firefox.get_cookies, as long as no session candidate was read  *)
(* (each was absent, or failed to read or parse), a candidate that fails   *)
(* does not make get_cookies raise; and when get_cookies ends with no      *)
(* candidate read, it ends without raising, no session record was yielded, *)
(* and the no-session-files message is printed.                            *)
(***************************************************************************)
\* a record of a session document: its expires is time.time() + SessionLifetime
IsSessionRecord(c) == c.expires > SessionLifetime

C15_SessionFailuresTolerated ==
    [][(entry = "Firefox" /\ klass = "Firefox" /\ ~has_session_files) =>
          /\ (pc = "files" /\ cookie_files[fi].suffix # ".sqlite" /\ ~has_session_files')
                => (pc' # "raised" \/ IsNotFound(exc'))
          /\ pc = "end" =>
                /\ pc' = "returned"
                /\ "Could not find any Firefox session files" \in stdout'
                /\ \A i \in DOMAIN yielded' : ~IsSessionRecord(yielded'[i])]_vars

\* the same, but for a candidate lz4 cannot decompress
C15_SessionFailuresToleratedButLz4 ==
    [][(entry = "Firefox" /\ klass = "Firefox" /\ ~has_session_files) =>
          /\ (pc = "files" /\ cookie_files[fi].suffix # ".sqlite" /\ ~has_session_files')
                => (pc' # "raised" \/ IsNotFound(exc') \/ exc'.kind = "LZ4BlockError")
          /\ pc = "end" =>
                /\ pc' = "returned"
                /\ "Could not find any Firefox session files" \in stdout'
                /\ \A i \in DOMAIN yielded' : ~IsSessionRecord(yielded'[i])]_vars

(***************************************************************************)
(* C16.  In Firefox.get_cookies session records come from the first        *)
(* candidate read alone: no later candidate has its cookies yielded once   *)
(* one candidate was read.                                                 *)
(***************************************************************************)
C16_OnlyFirstCandidate ==
    [][(klass = "Firefox" /\ pc = "files" /\ pc' = "rows" /\ cur'.kind = "session")
          => ~has_session_files]_vars

(***************************************************************************)
(* C17.  From a single-browser entry point a decryption error of a row     *)
(* reaches the caller and no jar is returned, not even one of the records  *)
(* yielded before; from load() the same error does not reach the caller.   *)
(***************************************************************************)
C17_SingleStrictAggregateLenient ==
    /\ (entry \in EntryKlasses /\ IsDecryptionError(thrown)) =>
          /\ pc = "raised"
          /\ exc = thrown
    /\ (entry \in EntryKlasses /\ pc = "raised") => cookie_jar = NoJar
    /\ (entry = "load" /\ IsDecryptionError(thrown)) =>
          /\ pc = "agg"
          /\ exc = NoExc
    /\ entry = "load" => ~IsDecryptionError(exc)

\* chrome(files): a row fails after a record was yielded, and no jar is returned
C17_Witness ==
    /\ entry = "Chrome"
    /\ pc = "raised"
    /\ IsDecryptionError(exc)
    /\ yielded # << >>
    /\ cookie_jar = NoJar

\* load(): a row of a loader failed, and _get_cookies is at its next class
C17_AggregateSeen ==
    /\ entry = "load"
    /\ pc = "agg"
    /\ IsDecryptionError(thrown)
    /\ yielded # << >>

(***************************************************************************)
(* C18.  load() runs get_cookies of every loader class, the Chromium       *)
(* family, Firefox and Safari: when it returns, each class was constructed *)
(* and run.                                                                *)
(***************************************************************************)
\* lines 235-452: the loader classes
LoaderKlasses == ChromeKlasses \cup {"Firefox", "Safari"}

C18_EveryLoaderRuns ==
    (entry = "load" /\ cookie_jar.returned) =>
        LoaderKlasses \subseteq {started[i] : i \in DOMAIN started}

\* the same of the Chromium family and Firefox alone
C18_EveryLoaderRunsButSafari ==
    (entry = "load" /\ cookie_jar.returned) =>
        LoaderKlasses \ {"Safari"} \subseteq {started[i] : i \in DOMAIN started}

(***************************************************************************)
(* C19.  In every record a reader yields, domain_specified and             *)
(* domain_initial_dot are both true exactly when the host begins with a    *)
(* dot: ".a" is not host-only, "a" is.                                     *)
(***************************************************************************)
\* the host begins with a dot
LeadingDot(host) == Len(host) > 0 /\ host[1] = "."

C19_HostOnlyFromLeadingDot ==
    \A i \in DOMAIN yielded :
        /\ yielded[i].domain_specified <=> LeadingDot(yielded[i].domain)
        /\ yielded[i].domain_initial_dot <=> LeadingDot(yielded[i].domain)

\* a reader yielded a record of host ".a" and one of host "a"
C19_Witness ==
    /\ Len(yielded) = 2
    /\ yielded[1].domain = <<".", "a">>
    /\ yielded[1].domain_specified = TRUE
    /\ yielded[1].domain_initial_dot = TRUE
    /\ yielded[2].domain = <<"a">>
    /\ yielded[2].domain_specified = FALSE
    /\ yielded[2].domain_initial_dot = FALSE

(***************************************************************************)
(* C20.  For a Chromium row with a non-negative expires_utc, microseconds  *)
(* since 1601-01-01, the record's expires is                               *)
(* floor(expires_utc / 1000000) - 11644473600, for values that are no      *)
(* whole number of seconds and for values before 1970-01-01 as well.       *)
(***************************************************************************)
\* floor(expires_utc / 10^6) - 11644473600
FloorSeconds(expires_utc) ==
    (expires_utc.mega - EpochMega) * Million + (expires_utc.sec - EpochRest)

C20_ExpiresIsFloor ==
    call.fn = "expires" => call.out = FloorSeconds(call.expires_utc)

\* the same of the rows that expire on 1970-01-01 or later, and of whole seconds
C20_ExpiresIsFloorFromEpoch ==
    (call.fn = "expires"
       /\ (FloorSeconds(call.expires_utc) >= 0 \/ call.expires_utc.micros = 0))
    => call.out = FloorSeconds(call.expires_utc)

\* int() rounds towards zero: before 1970-01-01 a fraction gives the next second
C20_ExpiresTruncated ==
    (call.fn = "expires" /\ FloorSeconds(call.expires_utc) < 0
       /\ call.expires_utc.micros > 0)
    => call.out = FloorSeconds(call.expires_utc) + 1

(***************************************************************************)
(* C21: in load(), when a loader fails after its get_cookies has started,  *)
(* the records it had yielded stay in the sequence load() sorts and        *)
(* inserts, the loader contributes nothing more, and _get_cookies goes on  *)
(* towards the returned jar.                                               *)
(***************************************************************************)
LoaderFails == entry = "load" /\ klass # "" /\ thrown' # NoExc

PartialViewKept ==
    /\ yielded' = yielded
    /\ klass' = "" /\ cookie_files' = << >> /\ cur' = NoCur
    /\ pc' = "agg"

C21_PartialViewKept == [][LoaderFails => PartialViewKept]_vars

\* the same for the failures line 624 names
C21_PartialViewKeptWhenCaught ==
    [][(LoaderFails /\ Catches(thrown')) => PartialViewKept]_vars

(***************************************************************************)
(* C22: once a row of a Chromium store fails with "Error decrypting        *)
(* cookie", get_cookies of that loader is over: the loader and its file    *)
(* list are dropped with rows and files still unread, and no record is     *)
(* yielded while that error is the last thing that happened.               *)
(***************************************************************************)
RowFailsDecryption ==
    /\ pc = "rows" /\ klass \in ChromeKlasses
    /\ IsDecryptionError(thrown')

ReaderOver ==
    /\ yielded' = yielded
    /\ klass' = "" /\ cookie_files' = << >> /\ fi' = 0 /\ cur' = NoCur
    /\ pc' \in {"agg", "raised"}

C22_DecryptionErrorEnds ==
    [][/\ RowFailsDecryption => ReaderOver
       /\ IsDecryptionError(thrown) => yielded' = yielded]_vars

\* chrome() yielded one record and then failed on a row, with room for more records
C22_Witness ==
    /\ entry = "Chrome"
    /\ pc = "raised"
    /\ IsDecryptionError(thrown)
    /\ Len(yielded) = 1 /\ Len(yielded) < MaxCookies
    /\ klass = ""

(***************************************************************************)
(* C23: a loader constructed with an explicit empty list is the loader     *)
(* constructed with no list: find_cookie_files() runs and what it gives,   *)
(* files or error, is the outcome; the loader never has an empty file      *)
(* list.                                                                   *)
(***************************************************************************)
EmptyListGiven == call.fn = "__init__" /\ call.arg = Arg(<< >>)

C23_EmptyListIsNoList ==
    EmptyListGiven =>
        /\ call.out = BrowserCookieLoaderInit(NoArg, call.found)
        /\ ~(call.out.ok /\ call.out.val = << >>)

\* the same without the last part: discovery decides, as with no list
C23_EmptyListRunsDiscovery ==
    EmptyListGiven => call.out = BrowserCookieLoaderInit(NoArg, call.found)

\* an empty list was passed and discovery gave the files of the loader
C23_DiscoverySeen ==
    /\ EmptyListGiven
    /\ call.out.ok /\ call.out.val # << >>
    /\ call.out.val = call.found.val

====
